---- MODULE Spec2Model ----
(***************************************************************************)
(* PersistentTmuxWrapper (utils/tmux_wrapper.py) driving TmuxOrchestrator  *)
(* (scripts/tmux_utils.py): the line-delimited request/response loop, the  *)
(* dispatcher handle_request and the orchestrator operations it calls,     *)
(* against an external tmux process that may answer, exit non-zero, be     *)
(* missing, or never return.                                               *)
(***************************************************************************)
EXTENDS Integers, Sequences, FiniteSets, TLC

VARIABLES
    pc,           \* position of run_persistent: "Idle", "Closed" or "Hung"
    exit_code,    \* process exit status once Closed, -1 while running
    safety_mode,  \* TmuxOrchestrator.safety_mode
    world,        \* the sessions and windows the tmux server holds
    fault,        \* what happens to tmux once budget is used up
    budget,       \* external calls tmux still answers before the fault
    nread,        \* lines consumed from stdin so far
    nonblank,     \* non-blank lines the loop has read so far
    hist,         \* per non-blank line: how it parsed and the id it carried
    out,          \* per line that left the process on stdout: JSON response or
                  \* plain text
    stdout_buffer,\* lines printed but still held in sys.stdout's buffer
    last          \* the latest non-blank line, its Response and its effects,
                  \* and the budget it started with

vars == <<pc, exit_code, safety_mode, world, fault, budget, nread, nonblank,
          hist, out, stdout_buffer, last>>

(***************************************************************************)
(* Bounds.                                                                 *)
(***************************************************************************)
MaxLines == 1      \* lines offered on stdin, drawn from every request (Spec)
MaxLoopLines == 3  \* lines offered on stdin, drawn from LoopLines (SpecLoop)
MaxBudget == 2     \* external calls answered before an injected fault

(***************************************************************************)
(* JSON values, tagged so that values of different types compare unequal.  *)
(***************************************************************************)
Str(s) == [t |-> "str", s |-> s]
JInt(n) == [t |-> "int", n |-> n]
Bool(b) == [t |-> "bool", b |-> b]
Null == [t |-> "null"]
List(q) == [t |-> "list", items |-> q]
Dict(d) == [t |-> "dict", d |-> d]
Absent == [t |-> "absent"]       \* a key the object does not have
Obj(id, method, args) == [t |-> "obj", id |-> id, method |-> method, args |-> args]

\* Python truth value of a JSON value (not x).
Falsy(v) ==
    \/ v.t = "null"
    \/ v.t = "str" /\ v.s = ""
    \/ v.t = "int" /\ v.n = 0
    \/ v.t = "bool" /\ ~v.b
    \/ v.t = "list" /\ v.items = <<>>

\* isinstance(v, int): bool is a subclass of int.
IsInt(v) == v.t \in {"int", "bool"}
IntVal(v) == IF v.t = "int" THEN v.n ELSE IF v.t = "bool" /\ v.b THEN 1 ELSE 0
\* Types for which an ordering comparison with an int does not raise TypeError.
IsNumber(v) == v.t \in {"int", "bool"}

\* f"{session_name}:{window_index}"
Target(sn, wi) == [session |-> sn, window |-> wi]

(***************************************************************************)
(* Results of a call: the effects so far, the exception raised ("none" if  *)
(* it returned) and the value returned or the exception's message.         *)
(* "Hang" stands for a call that never returns.                            *)
(***************************************************************************)
NoEffects(b) == [calls |-> <<>>, prints |-> <<>>, budget |-> b, reads |-> 0]
Ret(e, v) == [e |-> e, exc |-> "none", val |-> v]
Raise(e, x, m) == [e |-> e, exc |-> x, val |-> m]
Msg(text, arg) == [text |-> text, arg |-> arg]
\* print(...) inside the orchestrator: a line on the process's stdout.
WriteLine(e, text) == [e EXCEPT !.prints = Append(@, text)]

(***************************************************************************)
(* The external tmux process.                                              *)
(***************************************************************************)
Win(i, name, active) == [window_index |-> i, window_name |-> name, active |-> active]
Sess(name, attached, windows) == [name |-> name, attached |-> attached, windows |-> windows]

Worlds ==
    { <<>>,
      << Sess("main", TRUE, << Win(0, "shell", TRUE), Win(1, "qa-engineer", FALSE) >>) >>,
      << Sess("main", TRUE, << Win(0, "shell", TRUE), Win(1, "qa-engineer", FALSE) >>),
         Sess("work", FALSE, << Win(0, "QA-logs", TRUE) >>) >> }

\* Ways the external command can go wrong: non-zero exit, no tmux binary, no
\* return at all, and exit status 0 with output that is empty, lacks fields,
\* or holds a field of the wrong type.
Garbled == {"empty", "short", "nonnum"}
Faults == {"exit", "absent", "hung"} \cup Garbled

SessionExists(name) == \E i \in 1..Len(world) : world[i].name = name
SessionOf(name) == world[CHOOSE i \in 1..Len(world) : world[i].name = name]
TargetExists(tg) ==
    /\ tg.session.t = "str"
    /\ tg.window.t = "int"
    /\ \E i \in 1..Len(world) :
          /\ world[i].name = tg.session.s
          /\ \E j \in 1..Len(world[i].windows) :
                world[i].windows[j].window_index = tg.window.n
WindowOf(tg) ==
    LET s == SessionOf(tg.session.s)
    IN  s.windows[CHOOSE j \in 1..Len(s.windows) : s.windows[j].window_index = tg.window.n]

\* Whether tmux, when it runs, accepts the command (exit status 0).
Accepts(cmd) ==
    CASE cmd.name = "list-sessions" -> TRUE
      [] cmd.name = "list-windows" -> SessionExists(cmd.target)
      [] OTHER -> TargetExists(cmd.target)

\* What tmux prints on success; lines are kept as the fields a split(':')
\* of the formatted line yields, a name holding ':' giving several fields.
SplitColon(s) == IF s = "a:b" THEN <<"a", "b">> ELSE <<s>>
Flag(b) == IF b THEN "1" ELSE "0"
RECURSIVE SessionLines(_)
SessionLines(ss) ==
    IF ss = <<>> THEN <<>>
    ELSE <<SplitColon(Head(ss).name) \o <<Flag(Head(ss).attached)>>>> \o SessionLines(Tail(ss))
RECURSIVE WindowLines(_)
WindowLines(ws) ==
    IF ws = <<>> THEN <<>>
    ELSE << <<Head(ws).window_index>> \o SplitColon(Head(ws).window_name)
            \o <<Flag(Head(ws).active)>> >> \o WindowLines(Tail(ws))
Stdout(cmd) ==
    CASE cmd.name = "list-sessions" -> SessionLines(world)
      [] cmd.name = "list-windows" -> WindowLines(SessionOf(cmd.target).windows)
      [] cmd.name = "capture-pane" -> [pane |-> cmd.target, lines |-> cmd.arg]
      [] cmd.name = "display-message" ->
            SplitColon(WindowOf(cmd.target).window_name)
            \o <<Flag(WindowOf(cmd.target).active), "1", "layout">>
      [] OTHER -> <<>>

\* What subprocess.run captures when tmux exits 0 with unexpected output.
GarbledStdout(cmd, how) ==
    CASE cmd.name = "capture-pane" -> [pane |-> cmd.target, lines |-> 0]
      [] how = "empty" -> <<>>
      [] cmd.name = "display-message" /\ how = "short" -> <<"shell">>
      [] cmd.name = "display-message" /\ how = "nonnum" -> <<"shell", "1", "x", "layout">>
      [] cmd.name \in {"list-sessions", "list-windows"} /\ how = "short" -> << <<"main">> >>
      [] cmd.name \in {"list-sessions", "list-windows"} /\ how = "nonnum" ->
            << <<"0", "sh", "ell", "x", "1">> >>
      [] OTHER -> <<>>

\* subprocess.run(cmd, capture_output=True, check=check)
subprocess_run(e, cmd, check) ==
    LET rc == IF fault # "none" /\ e.budget = 0
              THEN (IF fault \in Garbled /\ ~Accepts(cmd) THEN "exit" ELSE fault)
              ELSE IF Accepts(cmd) THEN "ok" ELSE "exit"
        e1 == [e EXCEPT !.calls = Append(@, [cmd |-> cmd, rc |-> rc]),
                        !.budget = IF @ > 0 THEN @ - 1 ELSE @]
    IN  CASE rc = "hung" -> Raise(e1, "Hang", Msg("", Null))
          [] rc = "absent" -> Raise(e1, "FileNotFoundError", Msg("No such file or directory: 'tmux'", Null))
          [] rc = "exit" /\ check -> Raise(e1, "CalledProcessError", Msg("returned non-zero exit status", Null))
          [] rc = "exit" /\ ~check -> Ret(e1, <<>>)
          [] rc \in Garbled -> Ret(e1, GarbledStdout(cmd, rc))
          [] OTHER -> Ret(e1, Stdout(cmd))

Cmd(name, target, arg) == [name |-> name, target |-> target, arg |-> arg]

(***************************************************************************)
(* TmuxOrchestrator (scripts/tmux_utils.py).                               *)
(***************************************************************************)
max_lines_capture == 1000
default_num_lines == 50

\* Strings whose characters matter (lower(), substring tests).
Chars(s) ==
    CASE s = "" -> <<>>
      [] s = "shell" -> <<"s", "h", "e", "l", "l">>
      [] s = "qa-engineer" -> <<"q", "a", "-", "e", "n", "g", "i", "n", "e", "e", "r">>
      [] s = "QA-logs" -> <<"Q", "A", "-", "l", "o", "g", "s">>
      [] s = "QA" -> <<"Q", "A">>
      [] s = "qa" -> <<"q", "a">>
      [] s = "sh" -> <<"s", "h">>
      [] s = "zz" -> <<"z", "z">>
      [] s = "project" -> <<"p", "r", "o", "j", "e", "c", "t">>
      [] s = "manager" -> <<"m", "a", "n", "a", "g", "e", "r">>
      [] s = "test" -> <<"t", "e", "s", "t">>
      [] s = "dev" -> <<"d", "e", "v">>
      [] s = "code" -> <<"c", "o", "d", "e">>
      [] s = "a:b" -> <<"a", ":", "b">>
      [] OTHER -> <<s>>
LowerChar(c) == IF c = "Q" THEN "q" ELSE IF c = "A" THEN "a" ELSE c
\* Variant: the names are compared as they are written.
Lower_as_written(cs) == cs

\* str.lower()
Lower(cs) == [i \in 1..Len(cs) |-> LowerChar(cs[i])]
\* a in b, for strings
Contains(b, a) ==
    \E k \in 0..(Len(b) - Len(a)) : \A i \in 1..Len(a) : b[k + i] = a[i]

RECURSIVE parse_windows(_, _)
parse_windows(lines, session_name) ==
    IF lines = <<>> THEN <<>>
    ELSE <<[session_name |-> session_name,
            window_index |-> Head(lines)[1],
            window_name |-> Head(lines)[2],
            active |-> Head(lines)[3] = "1"]>>
         \o parse_windows(Tail(lines), session_name)

\* The loop over the lines of list-sessions; a line that does not unpack
\* into the expected number of fields raises ValueError.
RECURSIVE sessions_loop(_, _, _)
sessions_loop(e, lines, sessions) ==
    IF lines = <<>> THEN Ret(e, sessions)
    ELSE IF Len(Head(lines)) # 2 THEN Raise(e, "ValueError", Msg("values to unpack", Null))
    ELSE LET session_name == Head(lines)[1]
             listed(r) ==
                 IF r.exc # "none" THEN r
                 ELSE IF \E i \in 1..Len(r.val) : Len(r.val[i]) # 3
                 THEN Raise(r.e, "ValueError", Msg("values to unpack", Null))
                 ELSE sessions_loop(r.e, Tail(lines),
                         Append(sessions, [name |-> session_name,
                                           windows |-> parse_windows(r.val, session_name),
                                           attached |-> Head(lines)[2] = "1"]))
         IN  listed(subprocess_run(e, Cmd("list-windows", session_name, Null), TRUE))

get_tmux_sessions(e) ==
    LET caught(r) ==
            IF r.exc = "CalledProcessError"
            THEN Ret(WriteLine(r.e, "Error getting tmux sessions"), <<>>)
            ELSE r
        listed(r0) == IF r0.exc # "none" THEN r0 ELSE sessions_loop(r0.e, r0.val, <<>>)
    IN  caught(listed(subprocess_run(e, Cmd("list-sessions", Null, Null), TRUE)))

ErrText(text, about) == [t |-> "str", s |-> text, about |-> about]

\* Variant: the number of lines is passed on as given.
clamp_lines_off(num_lines) == IntVal(num_lines)

\* if num_lines > self.max_lines_capture: num_lines = self.max_lines_capture
clamp_lines(num_lines) ==
    IF IntVal(num_lines) > max_lines_capture THEN max_lines_capture ELSE IntVal(num_lines)

capture_window_content(e, session_name, window_index, num_lines) ==
    IF Falsy(session_name) \/ ~IsInt(window_index) \/ IntVal(window_index) < 0
    THEN Ret(e, ErrText("Error: Invalid session name or window index",
                        Target(session_name, window_index)))
    ELSE IF ~IsNumber(num_lines)
    THEN Raise(e, "TypeError", Msg("'<=' not supported", Null))
    ELSE IF IntVal(num_lines) <= 0
    THEN Ret(e, ErrText("Error: Number of lines must be positive", Null))
    ELSE LET over == IntVal(num_lines) > max_lines_capture
             n == clamp_lines(num_lines)
             e1 == IF over THEN WriteLine(e, "Warning: Limiting capture") ELSE e
             target == Target(session_name, window_index)
             caught(r) ==
                 IF r.exc = "CalledProcessError"
                 THEN Ret(r.e, ErrText("Error capturing content from", target))
                 ELSE IF r.exc # "none" THEN r
                 ELSE Ret(r.e, [t |-> "str", stdout |-> r.val])
             checked(r1) ==
                 IF r1.exc # "none" THEN r1
                 ELSE subprocess_run(r1.e, Cmd("capture-pane", target, n), TRUE)
         IN  caught(checked(subprocess_run(e1, Cmd("list-panes", target, Null), TRUE)))

IsDigits(s) == s \in {"0", "1"}

get_window_info(e, session_name, window_index) ==
    LET with_content(r, c) ==
            IF c.exc # "none" THEN c
            ELSE Ret(c.e, Dict([name |-> r.val[1],
                                active |-> r.val[2] = "1",
                                panes |-> r.val[3],
                                layout |-> r.val[4],
                                content |-> c.val]))
        described(r) ==
            IF r.exc = "CalledProcessError"
            THEN Ret(r.e, Dict([error |-> "Could not get window info"]))
            ELSE IF r.exc # "none" THEN r
            ELSE IF r.val = <<>> THEN Ret(r.e, Null)
            ELSE IF Len(r.val) < 3 THEN Raise(r.e, "IndexError", Msg("list index out of range", Null))
            ELSE IF ~IsDigits(r.val[3]) THEN Raise(r.e, "ValueError", Msg("invalid literal for int()", Null))
            ELSE IF Len(r.val) < 4 THEN Raise(r.e, "IndexError", Msg("list index out of range", Null))
            ELSE with_content(r, capture_window_content(r.e, session_name, window_index,
                                                        JInt(default_num_lines)))
    IN  described(subprocess_run(e, Cmd("display-message", Target(session_name, window_index), Null), TRUE))

\* Variant: a failed existence check is reported and the keys are sent anyway.
send_keys_to_window_unchecked(e, session_name, window_index, keys, confirm, answer) ==
    IF Falsy(session_name) \/ ~IsInt(window_index) \/ IntVal(window_index) < 0
    THEN Ret(WriteLine(e, "Error: Invalid session name or window index"), Bool(FALSE))
    ELSE IF Falsy(keys)
    THEN Ret(WriteLine(e, "Error: Cannot send empty keys"), Bool(FALSE))
    ELSE LET target == Target(session_name, window_index)
             sent(r3) ==
                 IF r3.exc = "CalledProcessError"
                 THEN Ret(WriteLine(WriteLine(r3.e, "Error sending keys"), "Details"), Bool(FALSE))
                 ELSE IF r3.exc # "none" THEN r3
                 ELSE Ret(r3.e, Bool(TRUE))
             checked(r1) ==
                 IF r1.exc = "CalledProcessError"
                 THEN sent(subprocess_run(WriteLine(r1.e, "Error: Tmux target does not exist"),
                                          Cmd("send-keys", target, keys), TRUE))
                 ELSE IF r1.exc # "none" THEN r1
                 ELSE sent(subprocess_run(r1.e, Cmd("send-keys", target, keys), TRUE))
         IN  checked(subprocess_run(e, Cmd("list-panes", target, Null), TRUE))

\* answer: what input() would return ("yes", "no") or "eof".
send_keys_to_window(e, session_name, window_index, keys, confirm, answer) ==
    IF Falsy(session_name) \/ ~IsInt(window_index) \/ IntVal(window_index) < 0
    THEN Ret(WriteLine(e, "Error: Invalid session name or window index"), Bool(FALSE))
    ELSE IF Falsy(keys)
    THEN Ret(WriteLine(e, "Error: Cannot send empty keys"), Bool(FALSE))
    ELSE LET target == Target(session_name, window_index)
             ask == safety_mode /\ ~Falsy(confirm)
             sent(r3) ==
                 IF r3.exc = "CalledProcessError"
                 THEN Ret(WriteLine(WriteLine(r3.e, "Error sending keys"), "Details"), Bool(FALSE))
                 ELSE IF r3.exc # "none" THEN r3
                 ELSE Ret(r3.e, Bool(TRUE))
             asked(e2) ==
                 IF answer = "eof" THEN Raise(e2, "EOFError", Msg("EOF when reading a line", Null))
                 ELSE IF answer # "yes" THEN Ret(WriteLine(e2, "Operation cancelled"), Bool(FALSE))
                 ELSE sent(subprocess_run(e2, Cmd("send-keys", target, keys), TRUE))
             checked(r1) ==
                 IF r1.exc = "CalledProcessError"
                 THEN Ret(WriteLine(r1.e, "Error: Tmux target does not exist"), Bool(FALSE))
                 ELSE IF r1.exc # "none" THEN r1
                 ELSE IF ask
                 THEN asked([WriteLine(WriteLine(r1.e, "SAFETY CHECK: About to send"),
                                       "Confirm? (yes/no): ") EXCEPT !.reads = @ + 1])
                 ELSE sent(subprocess_run(r1.e, Cmd("send-keys", target, keys), TRUE))
         IN  checked(subprocess_run(e, Cmd("list-panes", target, Null), TRUE))

\* Variant: the return value of send_keys_to_window is not looked at.
send_command_to_window_always_submit(e, session_name, window_index, command, confirm, answer) ==
    IF Falsy(command)
    THEN Ret(WriteLine(e, "Error: Cannot send empty command"), Bool(FALSE))
    ELSE LET target == Target(session_name, window_index)
             submitted(r2) ==
                 IF r2.exc = "CalledProcessError"
                 THEN Ret(WriteLine(WriteLine(r2.e, "Error sending Enter key"), "Details"), Bool(FALSE))
                 ELSE IF r2.exc # "none" THEN r2
                 ELSE Ret(r2.e, Bool(TRUE))
             typed(r1) ==
                 IF r1.exc # "none" THEN r1
                 ELSE submitted(subprocess_run(r1.e, Cmd("send-keys", target, Str("C-m")), TRUE))
         IN  typed(send_keys_to_window(e, session_name, window_index, command, confirm, answer))

\* Text through send_keys_to_window, then the Enter key (C-m) on its own.
send_command_to_window(e, session_name, window_index, command, confirm, answer) ==
    IF Falsy(command)
    THEN Ret(WriteLine(e, "Error: Cannot send empty command"), Bool(FALSE))
    ELSE LET target == Target(session_name, window_index)
             submitted(r2) ==
                 IF r2.exc = "CalledProcessError"
                 THEN Ret(WriteLine(WriteLine(r2.e, "Error sending Enter key"), "Details"), Bool(FALSE))
                 ELSE IF r2.exc # "none" THEN r2
                 ELSE Ret(r2.e, Bool(TRUE))
             typed(r1) ==
                 IF r1.exc # "none" THEN r1
                 ELSE IF ~r1.val.b THEN Ret(r1.e, Bool(FALSE))
                 ELSE submitted(subprocess_run(r1.e, Cmd("send-keys", target, Str("C-m")), TRUE))
         IN  typed(send_keys_to_window(e, session_name, window_index, command, confirm, answer))

_detect_window_role(window_name, window_index) ==
    LET name_lower == Lower(Chars(window_name))
        at(i) == IsInt(window_index) /\ IntVal(window_index) = i
    IN  IF Contains(name_lower, Chars("project")) \/ Contains(name_lower, Chars("manager")) \/ at(0)
        THEN "project-manager"
        ELSE IF Contains(name_lower, Chars("qa")) \/ Contains(name_lower, Chars("test")) \/ at(1)
        THEN "qa-engineer"
        ELSE "developer"

_generate_status_response(role, session_name, window_index) ==
    CASE role = "project-manager" -> "PROJECT STATUS"
      [] role = "qa-engineer" -> "QA STATUS"
      [] role = "developer" -> "DEVELOPER STATUS"
      [] OTHER -> "AGENT STATUS"

handle_status_request(e, session_name, window_index, request) ==
    LET target == Target(session_name, window_index)
        sent(r2) ==
            IF r2.exc = "CalledProcessError"
            THEN Ret(WriteLine(r2.e, "Error handling status request"), Bool(FALSE))
            ELSE IF r2.exc # "none" THEN r2
            ELSE Ret(r2.e, Bool(TRUE))
        cancelled(r1, status_response) ==
            IF r1.exc # "none" THEN r1
            ELSE sent(subprocess_run(r1.e, Cmd("send-keys", target,
                                               [t |-> "str", echo |-> status_response]), TRUE))
        in_session(e0, session) ==
            LET wj == {j \in 1..Len(session.windows) :
                          IsInt(window_index)
                          /\ session.windows[j].window_index = IntVal(window_index)}
                window == session.windows[CHOOSE j \in wj : \A k \in wj : j <= k]
            IN  IF wj = {} THEN Ret(e0, Bool(FALSE))
                ELSE cancelled(subprocess_run(e0, Cmd("send-keys", target, Str("C-c")), FALSE),
                               _generate_status_response(
                                   _detect_window_role(window.window_name, window_index),
                                   session_name, window_index))
        listed(r0) ==
            LET si == {i \in 1..Len(r0.val) :
                          session_name.t = "str" /\ r0.val[i].name = session_name.s}
            IN  IF r0.exc # "none" THEN r0
                ELSE IF si = {} THEN Ret(r0.e, Bool(FALSE))
                ELSE in_session(r0.e, r0.val[CHOOSE i \in si : \A k \in si : i <= k])
    IN  listed(get_tmux_sessions(e))

\* The loop over the windows of one session in get_all_windows_status.
RECURSIVE windows_status(_, _, _, _)
windows_status(e, session, ws, acc) ==
    IF ws = <<>> THEN Ret(e, acc)
    ELSE LET window == Head(ws)
             described(r) ==
                 IF r.exc # "none" THEN r
                 ELSE windows_status(r.e, session, Tail(ws),
                         Append(acc, [index |-> window.window_index,
                                      name |-> window.window_name,
                                      active |-> window.active,
                                      info |-> r.val]))
         IN  described(get_window_info(e, Str(session.name), JInt(window.window_index)))

RECURSIVE sessions_status(_, _, _)
sessions_status(e, ss, acc) ==
    IF ss = <<>> THEN Ret(e, acc)
    ELSE LET session == Head(ss)
             collected(r) ==
                 IF r.exc # "none" THEN r
                 ELSE sessions_status(r.e, Tail(ss),
                         Append(acc, [name |-> session.name,
                                      attached |-> session.attached,
                                      windows |-> r.val]))
         IN  collected(windows_status(e, session, session.windows, <<>>))

get_all_windows_status(e) ==
    LET stamped(r) ==
            IF r.exc # "none" THEN r
            ELSE Ret(r.e, Dict([timestamp |-> "now", sessions |-> r.val]))
        listed(r0) == IF r0.exc # "none" THEN r0 ELSE sessions_status(r0.e, r0.val, <<>>)
    IN  stamped(listed(get_tmux_sessions(e)))

RECURSIVE window_matches(_, _, _)
window_matches(name_lower, session, ws) ==
    IF ws = <<>> THEN <<>>
    ELSE (IF Contains(Lower(Chars(Head(ws).window_name)), name_lower)
          THEN <<List(<<Str(session.name), JInt(Head(ws).window_index)>>)>>
          ELSE <<>>)
         \o window_matches(name_lower, session, Tail(ws))

RECURSIVE session_matches(_, _)
session_matches(name_lower, ss) ==
    IF ss = <<>> THEN <<>>
    ELSE window_matches(name_lower, Head(ss), Head(ss).windows)
         \o session_matches(name_lower, Tail(ss))

find_window_by_name(e, window_name) ==
    LET matched(r0) ==
            IF r0.exc # "none" THEN r0
            ELSE IF \A i \in 1..Len(r0.val) : r0.val[i].windows = <<>> THEN Ret(r0.e, List(<<>>))
            ELSE IF window_name.t # "str"
            THEN Raise(r0.e, "AttributeError", Msg("object has no attribute 'lower'", Null))
            ELSE Ret(r0.e, List(session_matches(Lower(Chars(window_name.s)), r0.val)))
    IN  matched(get_tmux_sessions(e))

\* 'content' in window['info'] for every window, in order: TypeError on an
\* info that is None.
SnapshotRaises(status) ==
    \E i \in 1..Len(status.d.sessions) :
        \E j \in 1..Len(status.d.sessions[i].windows) :
            status.d.sessions[i].windows[j].info.t = "null"

create_monitoring_snapshot(e) ==
    LET rendered(r) ==
            IF r.exc # "none" THEN r
            ELSE IF SnapshotRaises(r.val)
            THEN Raise(r.e, "TypeError", Msg("argument of type 'NoneType' is not iterable", Null))
            ELSE Ret(r.e, [t |-> "str", snapshot |-> r.val])
    IN  rendered(get_all_windows_status(e))

(***************************************************************************)
(* PersistentTmuxWrapper (utils/tmux_wrapper.py).                          *)
(***************************************************************************)
\* Variant: the orchestrator's default safety_mode is left in place.
wrapper_safety_mode_default == TRUE

\* __init__: the orchestrator's default safety_mode is overwritten.
wrapper_safety_mode == FALSE

\* request.get(key), None when the key is missing.
Get(request, key) ==
    LET v == CASE key = "id" -> request.id
               [] key = "method" -> request.method
               [] OTHER -> request.args
    IN  IF v = Absent THEN Null ELSE v

\* The sessions as the JSON value get_tmux_sessions answers with.
window_json(w) ==
    Dict([sessionName |-> w.session_name, windowIndex |-> w.window_index,
          windowName |-> w.window_name, active |-> w.active])
session_json(session) ==
    Dict([name |-> session.name, attached |-> session.attached,
          windows |-> List([i \in 1..Len(session.windows) |-> window_json(session.windows[i])])])

StartsWithStatusRequest(command) == command.s = "STATUS REQUEST: report"

\* Argument i (Python index i - 1) or the default when the list is shorter.
ArgOr(args, i, default) == IF Len(args.items) >= i THEN args.items[i] ELSE default

\* Variant: the health check probes tmux before answering.
ping_probe(e) ==
    LET probed(r) == IF r.exc # "none" THEN r ELSE Ret(r.e, Str("pong"))
    IN  probed(subprocess_run(e, Cmd("list-sessions", Null, Null), TRUE))

\* The health check: a fixed literal, no orchestrator call.
ping(e) == Ret(e, Str("pong"))

\* Variant: the argument count is looked at after tmux was asked for the
\* sessions.
missing_arguments_late(e, text) ==
    LET listed(r) == IF r.exc # "none" THEN r ELSE Raise(r.e, "ValueError", Msg(text, Null))
    IN  listed(subprocess_run(e, Cmd("list-sessions", Null, Null), TRUE))

\* raise ValueError("Missing ...") on a too short args, before the orchestrator
\* is called.
missing_arguments(e, text) == Raise(e, "ValueError", Msg(text, Null))

\* Variant: a method that is not known is answered with an empty result.
unknown_method_ignored(e, method) == Ret(e, Null)

\* The else branch: raise ValueError(f"Unknown method: {method}").
unknown_method(e, method) == Raise(e, "ValueError", Msg("Unknown method: ", method))

\* The branch of handle_request for one method: the value of result, or the
\* exception raised on the way.
dispatch(e, method, args, answer) ==
    LET m == IF method.t = "str" THEN method.s ELSE ""
        needs_len == m \in {"capture_window_content", "get_window_info", "send_keys_to_window",
                            "send_command_to_window", "find_window_by_name"}
        n == IF args.t = "list" THEN Len(args.items) ELSE 0
        missing(text) == missing_arguments(e, text)
    IN  IF needs_len /\ args.t # "list"
        THEN Raise(e, "TypeError", Msg("object has no len()", Null))
        ELSE CASE m = "ping" -> ping(e)
          [] m = "get_tmux_sessions" ->
                LET listed(r) ==
                        IF r.exc # "none" THEN r
                        ELSE Ret(r.e, List([i \in 1..Len(r.val) |-> session_json(r.val[i])]))
                IN  listed(get_tmux_sessions(e))
          [] m = "capture_window_content" ->
                IF n < 2 THEN missing("Missing arguments for capture_window_content")
                ELSE capture_window_content(e, args.items[1], args.items[2],
                                            ArgOr(args, 3, JInt(default_num_lines)))
          [] m = "get_window_info" ->
                IF n < 2 THEN missing("Missing arguments for get_window_info")
                ELSE get_window_info(e, args.items[1], args.items[2])
          [] m = "send_keys_to_window" ->
                IF n < 3 THEN missing("Missing arguments for send_keys_to_window")
                ELSE send_keys_to_window(e, args.items[1], args.items[2], args.items[3],
                                         ArgOr(args, 4, Bool(FALSE)), answer)
          [] m = "send_command_to_window" ->
                IF n < 3 THEN missing("Missing arguments for send_command_to_window")
                ELSE IF args.items[3].t # "str"
                THEN Raise(e, "AttributeError", Msg("object has no attribute 'startswith'", Null))
                ELSE IF StartsWithStatusRequest(args.items[3])
                THEN handle_status_request(e, args.items[1], args.items[2], args.items[3])
                ELSE send_command_to_window(e, args.items[1], args.items[2], args.items[3],
                                            ArgOr(args, 4, Bool(FALSE)), answer)
          [] m = "get_all_windows_status" -> get_all_windows_status(e)
          [] m = "find_window_by_name" ->
                IF n < 1 THEN missing("Missing window name argument")
                ELSE find_window_by_name(e, args.items[1])
          [] m = "create_monitoring_snapshot" -> create_monitoring_snapshot(e)
          [] OTHER -> unknown_method(e, method)

\* Variants: a Response built from a template holding both keys; an error
\* Response that does not carry the request's id.
result_response_both(request_id, result) == [id |-> request_id, result |-> result, error |-> Null]
error_response_noid(request_id, message) == [id |-> Null, error |-> message]

\* The two dictionaries handle_request returns.
result_response(request_id, result) == [id |-> request_id, result |-> result]
error_response(request_id, message) == [id |-> request_id, error |-> message]

\* handle_request(request) with b external calls left before the fault.  A
\* request that is no JSON object has no get(): the AttributeError is raised
\* again inside the except clause and leaves handle_request.
handle_request(request, b, answer) ==
    IF request.t # "obj"
    THEN Raise(NoEffects(b), "AttributeError", Msg("object has no attribute 'get'", Null))
    ELSE LET method == Get(request, "method")
             args == IF request.args = Absent THEN List(<<>>) ELSE request.args
             request_id == Get(request, "id")
             answered(r) ==
                 IF r.exc = "none" THEN Ret(r.e, result_response(request_id, r.val))
                 ELSE IF r.exc = "Hang" THEN r
                 ELSE Ret(r.e, error_response(Get(request, "id"), r.val))
         IN  answered(dispatch(NoEffects(b), method, args, answer))

\* The error_response dictionaries of run_persistent's two except clauses.
invalid_json_response(message) == [id |-> Null, error |-> Msg("Invalid JSON request: ", message)]
request_error_response(message) == [id |-> Null, error |-> Msg("Request handling error: ", message)]

\* Variant: only json.JSONDecodeError is caught inside the loop, any other
\* exception reaches the outer except clause.
loop_body_decode_only(line, b, answer) ==
    IF line.kind = "garbage"
    THEN [status |-> "responded", e |-> NoEffects(b),
          resp |-> invalid_json_response(Msg("Expecting value", Null))]
    ELSE LET handled(r) ==
                 CASE r.exc = "none" -> [status |-> "responded", e |-> r.e, resp |-> r.val]
                   [] r.exc = "Hang" -> [status |-> "hung", e |-> r.e, resp |-> Null]
                   [] OTHER -> [status |-> "crashed", e |-> r.e,
                                resp |-> [id |-> Null, error |-> Msg("Persistent mode error: ", r.val)]]
         IN  handled(handle_request(line.doc, b, answer))

\* Variant: a line that is no JSON ends the loop through the outer clause.
loop_body_stop_on_garbage(line, b, answer) ==
    IF line.kind = "garbage"
    THEN [status |-> "crashed", e |-> NoEffects(b),
          resp |-> [id |-> Null, error |-> Msg("Persistent mode error: ", Msg("Expecting value", Null))]]
    ELSE LET handled(r) ==
                 CASE r.exc = "none" -> [status |-> "responded", e |-> r.e, resp |-> r.val]
                   [] r.exc = "Hang" -> [status |-> "hung", e |-> r.e, resp |-> Null]
                   [] OTHER -> [status |-> "responded", e |-> r.e,
                                resp |-> request_error_response(r.val)]
         IN  handled(handle_request(line.doc, b, answer))

\* One turn of the loop body on a non-blank line: json.loads, handle_request
\* and the except clauses.  status is "responded" or "hung".
loop_body(line, b, answer) ==
    IF line.kind = "garbage"
    THEN [status |-> "responded", e |-> NoEffects(b),
          resp |-> invalid_json_response(Msg("Expecting value", Null))]
    ELSE LET handled(r) ==
                 CASE r.exc = "none" -> [status |-> "responded", e |-> r.e, resp |-> r.val]
                   [] r.exc = "Hang" -> [status |-> "hung", e |-> r.e, resp |-> Null]
                   [] OTHER -> [status |-> "responded", e |-> r.e,
                                resp |-> request_error_response(r.val)]
         IN  handled(handle_request(line.doc, b, answer))

(***************************************************************************)
(* Input lines.                                                            *)
(***************************************************************************)
Ids == {Absent, JInt(1), JInt(2)}

Call(method, items) == [method |-> Str(method), args |-> List(items)]

Calls ==
    { [method |-> Str("ping"), args |-> Absent],
      [method |-> Str("ping"), args |-> Null],
      Call("ping", <<Str("main"), JInt(0), Str("ls")>>),
      [method |-> Str("get_tmux_sessions"), args |-> Absent],
      Call("capture_window_content", <<Str("main")>>),
      [method |-> Str("capture_window_content"), args |-> Null],
      Call("capture_window_content", <<Str("main"), JInt(0)>>),
      Call("capture_window_content", <<Str("main"), JInt(0), JInt(0)>>),
      Call("capture_window_content", <<Str("main"), JInt(0), JInt(-1)>>),
      Call("capture_window_content", <<Str("main"), JInt(0), JInt(1000)>>),
      Call("capture_window_content", <<Str("main"), JInt(0), JInt(1001)>>),
      Call("capture_window_content", <<Str("main"), JInt(0), JInt(2000)>>),
      Call("capture_window_content", <<Str("main"), JInt(0), Str("ten")>>),
      Call("capture_window_content", <<Str("main"), JInt(9), JInt(0)>>),
      Call("capture_window_content", <<Str("main"), JInt(9), JInt(2000)>>),
      Call("capture_window_content", <<Str(""), JInt(0), JInt(0)>>),
      Call("get_window_info", <<Str("main")>>),
      Call("get_window_info", <<Str("main"), JInt(1)>>),
      Call("get_window_info", <<Str("main"), JInt(9)>>),
      Call("send_keys_to_window", <<Str("main"), JInt(0)>>),
      Call("send_keys_to_window", <<Str("main"), JInt(0), Str("ls")>>),
      Call("send_keys_to_window", <<Str("main"), JInt(0), Str("ls"), Bool(TRUE)>>),
      Call("send_keys_to_window", <<Str("main"), JInt(9), Str("ls")>>),
      Call("send_keys_to_window", <<Str("main"), JInt(9), Str("ls"), Bool(TRUE)>>),
      Call("send_keys_to_window", <<Str(""), JInt(0), Str("ls")>>),
      Call("send_keys_to_window", <<Str("main"), JInt(-1), Str("ls")>>),
      Call("send_keys_to_window", <<Str("main"), Str("0"), Str("ls")>>),
      Call("send_keys_to_window", <<Str("main"), JInt(0), Str("")>>),
      Call("send_command_to_window", <<Str("main"), JInt(0)>>),
      Call("send_command_to_window", <<Str("main"), JInt(0), Str("ls")>>),
      Call("send_command_to_window", <<Str("main"), JInt(0), Str("ls"), Bool(TRUE)>>),
      Call("send_command_to_window", <<Str("main"), JInt(9), Str("ls")>>),
      Call("send_command_to_window", <<Str("main"), JInt(-1), Str("ls")>>),
      Call("send_command_to_window", <<Str("main"), JInt(0), Str("")>>),
      Call("send_command_to_window", <<Str("main"), JInt(0), JInt(5)>>),
      Call("send_command_to_window", <<Str("main"), JInt(1), Str("STATUS REQUEST: report")>>),
      Call("send_command_to_window", <<Str("main"), JInt(9), Str("STATUS REQUEST: report")>>),
      [method |-> Str("get_all_windows_status"), args |-> Absent],
      Call("find_window_by_name", <<>>),
      Call("find_window_by_name", <<Str("")>>),
      Call("find_window_by_name", <<Str("QA")>>),
      Call("find_window_by_name", <<Str("sh")>>),
      Call("find_window_by_name", <<Str("zz")>>),
      Call("find_window_by_name", <<JInt(5)>>),
      [method |-> Str("create_monitoring_snapshot"), args |-> Absent],
      Call("bogus", <<>>),
      Call("bogus", <<Str("main"), JInt(0), Str("ls")>>),
      [method |-> JInt(5), args |-> Absent],
      [method |-> Absent, args |-> Absent] }

Requests == {Obj(id, c.method, c.args) : id \in Ids, c \in Calls}

\* JSON documents that are no objects.
NonObjects == {List(<<>>), JInt(5), Null}

Lines ==
    {[kind |-> "garbage"]}
    \cup {[kind |-> "json", doc |-> d] : d \in Requests \cup NonObjects}

Answers == {"yes", "no", "eof"}

(***************************************************************************)
(* main() with --persistent: the wrapper is constructed, run_persistent    *)
(* waits for the first line.                                               *)
(***************************************************************************)
NoLast ==
    [line |-> [kind |-> "none"], status |-> "none", resp |-> Null,
     calls |-> <<>>, prints |-> <<>>, reads |-> 0, budget |-> 0]

Init ==
    /\ pc = "Idle"
    /\ exit_code = -1
    /\ safety_mode = wrapper_safety_mode
    /\ world \in Worlds
    /\ fault \in {"none"} \cup Faults
    /\ budget \in (IF fault = "none" THEN {0} ELSE 0..MaxBudget)
    /\ nread = 0
    /\ nonblank = 0
    /\ hist = <<>>
    /\ out = <<>>
    /\ stdout_buffer = <<>>
    /\ last = NoLast

\* readline() returns '': break, run_persistent and main return.
ReadEOF ==
    /\ pc = "Idle"
    /\ pc' = "Closed"
    /\ exit_code' = 0
    /\ out' = out \o stdout_buffer
    /\ stdout_buffer' = <<>>
    /\ UNCHANGED <<safety_mode, world, fault, budget, nread, nonblank, hist, last>>

\* KeyboardInterrupt while waiting for a line: sys.exit(0).
Interrupt ==
    /\ pc = "Idle"
    /\ pc' = "Closed"
    /\ exit_code' = 0
    /\ out' = out \o stdout_buffer
    /\ stdout_buffer' = <<>>
    /\ UNCHANGED <<safety_mode, world, fault, budget, nread, nonblank, hist, last>>

\* A line that is empty after strip(): continue.
SkipBlank ==
    /\ pc = "Idle"
    /\ nread' = nread + 1
    /\ UNCHANGED <<pc, exit_code, safety_mode, world, fault, budget, nonblank, hist, out,
                   stdout_buffer, last>>

\* What a line written to stdout is: a JSON Response or plain text.
JsonLine(k, resp) == [kind |-> "json", line |-> k, keys |-> DOMAIN resp, id |-> resp.id]
TextLine(k) == [kind |-> "text", line |-> k]

\* Variant: the except clauses of the loop skip the line without a Response.
stdout_lines_skip_errors(t, k) ==
    [i \in 1..Len(t.e.prints) |-> TextLine(k)]
    \o (IF t.status = "hung" \/ ("error" \in DOMAIN t.resp /\ t.e.calls = <<>> /\ t.resp.id = Null)
        THEN <<>> ELSE <<JsonLine(k, t.resp)>>)

\* What one turn of the loop writes to stdout: the orchestrator's own print()
\* calls, then print(json.dumps(response)) and flush, on the success path and
\* in both except clauses.  A call that never returns leaves no Response.
stdout_lines(t, k) ==
    [i \in 1..Len(t.e.prints) |-> TextLine(k)]
    \o (IF t.status = "hung" THEN <<>> ELSE <<JsonLine(k, t.resp)>>)

\* The place in the loop body that prints the Response to a line: after
\* handle_request returned, or one of the two except clauses.
clause(line) ==
    CASE line.kind = "garbage" -> "JSONDecodeError"
      [] line.doc.t # "obj" -> "Exception"
      [] OTHER -> "response"

\* Variant: only the Response printed after handle_request is flushed.
flushed_after_response_only(c) == c = "response"

\* sys.stdout.flush() follows print(json.dumps(...)) in all three places.
flushed_after(c) == c \in {"response", "JSONDecodeError", "Exception"}

\* Where the lines of one turn end up: print() appends to the buffer, flush()
\* hands the whole buffer over.  A call that never returns leaves what was
\* printed before it in the buffer.
emit(line, t, k) ==
    IF t.status # "hung" /\ flushed_after(clause(line))
    THEN [out |-> out \o stdout_buffer \o stdout_lines(t, k), buffer |-> <<>>]
    ELSE [out |-> out, buffer |-> stdout_buffer \o stdout_lines(t, k)]

\* A non-blank line: parse, dispatch, print the Response and flush.  An
\* exception leaving the loop body is answered by the outer except clause,
\* which ends the process with status 1.
HandleLine(line, answer) ==
    /\ pc = "Idle"
    /\ \E t \in {loop_body(line, budget, answer)} :
           /\ nread' = nread + 1 + t.e.reads
           /\ nonblank' = nonblank + 1
           /\ hist' = Append(hist, [kind |-> IF line.kind = "garbage" THEN "garbage"
                                             ELSE IF line.doc.t = "obj" THEN "object" ELSE "other",
                                    id |-> IF line.kind = "json" /\ line.doc.t = "obj"
                                           THEN line.doc.id ELSE Absent])
           /\ out' = emit(line, t, nonblank + 1).out
           /\ stdout_buffer' = emit(line, t, nonblank + 1).buffer
           /\ budget' = t.e.budget
           /\ pc' = CASE t.status = "hung" -> "Hung"
                      [] t.status = "crashed" -> "Closed"
                      [] OTHER -> "Idle"
           /\ exit_code' = IF t.status = "crashed" THEN 1 ELSE exit_code
           /\ last' = [line |-> line, status |-> t.status, resp |-> t.resp,
                       calls |-> t.e.calls, prints |-> t.e.prints, reads |-> t.e.reads,
                       budget |-> budget]
    /\ UNCHANGED <<safety_mode, world, fault>>

\* What input() can return when the orchestrator asks for confirmation.
AnswersNow == IF safety_mode THEN Answers ELSE {"none"}

\* The loop fed with any request.
Next ==
    \/ ReadEOF
    \/ Interrupt
    \/ nread < MaxLines /\ SkipBlank
    \/ nread < MaxLines /\ \E line \in Lines, answer \in AnswersNow : HandleLine(line, answer)

Spec == Init /\ [][Next]_vars

\* The loop fed with longer streams of one line per kind of outcome.
LoopLines ==
    {[kind |-> "garbage"]}
    \cup {[kind |-> "json", doc |-> d] : d \in NonObjects}
    \cup {[kind |-> "json", doc |-> Obj(id, Str("ping"), Absent)] : id \in Ids}
    \cup {[kind |-> "json", doc |-> Obj(JInt(1), c.method, c.args)] :
             c \in { Call("bogus", <<>>),
                     Call("send_keys_to_window", <<Str("main"), JInt(0)>>),
                     Call("send_keys_to_window", <<Str("main"), JInt(9), Str("ls")>>),
                     Call("send_command_to_window", <<Str("main"), JInt(0), Str("ls")>>) }}

NextLoop ==
    \/ ReadEOF
    \/ Interrupt
    \/ nread < MaxLoopLines /\ SkipBlank
    \/ nread < MaxLoopLines /\ \E line \in LoopLines, answer \in AnswersNow : HandleLine(line, answer)

SpecLoop == Init /\ [][NextLoop]_vars

(***************************************************************************)
(* main() without --persistent: one request built from the command line.   *)
(***************************************************************************)
\* json.loads(arg), the word itself when it is no JSON.
json_or_literal(arg) ==
    CASE arg = "0" -> JInt(0)
      [] arg = "1" -> JInt(1)
      [] arg = "9" -> JInt(9)
      [] arg = "-1" -> JInt(-1)
      [] arg = "2000" -> JInt(2000)
      [] arg = "true" -> Bool(TRUE)
      [] arg = "null" -> Null
      [] OTHER -> Str(arg)

\* Command lines: the method, then its arguments.
LegacyArgv ==
    { <<"ping">>,
      <<"bogus">>,
      <<"get_tmux_sessions">>,
      <<"capture_window_content", "main", "0">>,
      <<"capture_window_content", "main", "0", "0">>,
      <<"capture_window_content", "main", "0", "2000">>,
      <<"capture_window_content", "main", "9">>,
      <<"get_window_info", "main", "1">>,
      <<"send_keys_to_window", "main">>,
      <<"send_keys_to_window", "main", "0", "ls">>,
      <<"send_keys_to_window", "main", "0", "ls", "true">>,
      <<"send_keys_to_window", "main", "9", "ls">>,
      <<"send_keys_to_window", "main", "-1", "ls">>,
      <<"send_keys_to_window", "main", "0", "">>,
      <<"send_command_to_window", "main", "0", "ls">>,
      <<"send_command_to_window", "main", "9", "ls">>,
      <<"get_all_windows_status">>,
      <<"find_window_by_name">>,
      <<"find_window_by_name", "QA">>,
      <<"create_monitoring_snapshot">> }

\* The wrapper is constructed and main is about to look at args.method.
InitLegacy ==
    /\ pc = "Legacy"
    /\ exit_code = -1
    /\ safety_mode = wrapper_safety_mode
    /\ world \in Worlds
    /\ fault \in {"none"} \cup Faults
    /\ budget \in (IF fault = "none" THEN {0} ELSE 0..MaxBudget)
    /\ nread = 0
    /\ nonblank = 0
    /\ hist = <<>>
    /\ out = <<>>
    /\ stdout_buffer = <<>>
    /\ last = NoLast

\* What run_legacy and main print: {"error": ...}, or the bare result.
LegacyLine(resp) ==
    [kind |-> "json", line |-> 1,
     keys |-> IF "error" \in DOMAIN resp THEN {"error"} ELSE {}, id |-> Absent]

\* No method on the command line: print {"error": "No method specified"},
\* sys.exit(1).
NoMethodSpecified ==
    /\ pc = "Legacy"
    /\ pc' = "Closed"
    /\ exit_code' = 1
    /\ out' = <<LegacyLine([error |-> Msg("No method specified", Null)])>>
    /\ UNCHANGED <<safety_mode, world, fault, budget, nread, nonblank, hist, stdout_buffer, last>>

\* The arguments are parsed, run_legacy hands the request with id 'legacy'
\* to handle_request, prints, and exits 1 when the response holds an error.
run_legacy(argv, answer) ==
    /\ pc = "Legacy"
    /\ \E request \in {Obj(Str("legacy"), Str(Head(argv)),
                            List([i \in 1..(Len(argv) - 1) |-> json_or_literal(argv[i + 1])]))} :
       \E r \in {handle_request(request, budget, answer)} :
           /\ pc' = IF r.exc = "Hang" THEN "Hung" ELSE "Closed"
           /\ exit_code' = CASE r.exc = "Hang" -> exit_code
                              [] "error" \in DOMAIN r.val -> 1
                              [] OTHER -> 0
           /\ out' = (IF r.exc = "Hang" THEN <<>>
                       ELSE [i \in 1..Len(r.e.prints) |-> TextLine(1)] \o <<LegacyLine(r.val)>>)
           /\ stdout_buffer' = (IF r.exc = "Hang"
                                 THEN [i \in 1..Len(r.e.prints) |-> TextLine(1)] ELSE <<>>)
           /\ budget' = r.e.budget
           /\ nread' = nread + r.e.reads
           /\ last' = [line |-> [kind |-> "json", doc |-> request],
                       status |-> IF r.exc = "Hang" THEN "hung" ELSE "responded",
                       resp |-> IF r.exc = "Hang" THEN Null ELSE r.val,
                       calls |-> r.e.calls, prints |-> r.e.prints, reads |-> r.e.reads,
                       budget |-> budget]
    /\ UNCHANGED <<safety_mode, world, fault, nonblank, hist>>

NextLegacy ==
    \/ NoMethodSpecified
    \/ \E argv \in LegacyArgv, answer \in AnswersNow : run_legacy(argv, answer)

SpecLegacy == InitLegacy /\ [][NextLegacy]_vars

(***************************************************************************)
(* Properties.                                                             *)
(***************************************************************************)
IsJson(x) == x.kind = "json"
JsonLines == SelectSeq(out, IsJson)
\* The id a Response must carry for a request: its id, null when it has none.
ExpectedId(id) == IF id = Absent THEN Null ELSE id
Malformed(h) == h.kind \in {"garbage", "other"}
IsRequest == last.line.kind = "json" /\ last.line.doc.t = "obj"
IsMethod(m) == IsRequest /\ last.line.doc.method = Str(m)
ResultOrError(keys) == Cardinality(keys \cap {"result", "error"})
Range(q) == {q[i] : i \in 1..Len(q)}

\* C1: whenever the loop is back in Idle, the Responses written so far are as
\* many as the non-blank lines read, the k-th Response answers the k-th
\* non-blank line (and carries its id when that line is a request object);
\* blank lines add no Response.
C1_OneResponsePerLine ==
    pc = "Idle" =>
        /\ Len(JsonLines) = nonblank
        /\ Len(hist) = nonblank
        /\ nonblank <= nread
        /\ \A k \in 1..Len(JsonLines) :
              /\ JsonLines[k].line = k
              /\ hist[k].kind = "object" => JsonLines[k].id = ExpectedId(hist[k].id)

\* A blank line and two non-blank lines were read, the first no JSON, the
\* second a request with id 1 whose handling also printed text.
C1_Witness ==
    /\ pc = "Idle" /\ nread = 3 /\ nonblank = 2
    /\ hist[1].kind = "garbage" /\ hist[2].id = JInt(1)
    /\ Len(out) > 2 /\ Len(JsonLines) = 2

\* C2: the Response to a request object carries the request's id, null when
\* the request has none, on the result path and on the error path.
C2_IdEchoed ==
    /\ \A k \in 1..Len(hist) : \A i \in 1..Len(out) :
          hist[k].kind = "object" /\ out[i].kind = "json" /\ out[i].line = k
              => out[i].id = ExpectedId(hist[k].id)
    /\ IsRequest /\ last.status = "responded" => last.resp.id = ExpectedId(last.line.doc.id)

\* A request with id 2 failed in the adapter (tmux missing) and was answered
\* with an error.
C2_Witness ==
    /\ IsRequest /\ last.line.doc.id = JInt(2)
    /\ last.calls # <<>> /\ last.calls[Len(last.calls)].rc = "absent"
    /\ "error" \in DOMAIN last.resp /\ last.resp.id = JInt(2)

\* C3: every Response holds exactly one of the keys result and error.
C3_ResultXorError ==
    /\ \A i \in 1..Len(out) : out[i].kind = "json" => ResultOrError(out[i].keys) = 1
    /\ last.status = "responded" => ResultOrError(DOMAIN last.resp) = 1

\* A line holding a JSON value that is no object was answered by the loop's
\* own except clause.
C3_Witness ==
    /\ last.line.kind = "json" /\ last.line.doc.t # "obj"
    /\ DOMAIN last.resp = {"id", "error"}
    /\ Len(JsonLines) = 1

\* C4: a non-blank line that is no JSON, or JSON but no object, adds exactly
\* one line to stdout, an error Response with a null id, and leaves the loop
\* in Idle; a ping read right after it is answered as usual.
C4_MalformedAnswered ==
    [][ /\ (nonblank' = nonblank + 1 /\ Malformed(hist'[nonblank']))
           => /\ pc' = "Idle"
              /\ nread' = nread + 1
              /\ out' = Append(out, [kind |-> "json", line |-> nonblank',
                                     keys |-> {"id", "error"}, id |-> Null])
        /\ (nonblank > 0 /\ nonblank' = nonblank + 1 /\ Malformed(hist[nonblank])
              /\ last'.line.kind = "json" /\ last'.line.doc.t = "obj"
              /\ last'.line.doc.method = Str("ping"))
           => /\ pc' = "Idle"
              /\ last'.resp = [id |-> ExpectedId(last'.line.doc.id), result |-> Str("pong")]
      ]_vars

\* A JSON value that is no object, then a request answered with a result.
C4_Witness ==
    /\ pc = "Idle" /\ Len(hist) = 2 /\ Len(JsonLines) = 2
    /\ hist[1].kind = "other" /\ hist[2].kind = "object"
    /\ JsonLines[1].keys = {"id", "error"} /\ JsonLines[2].keys = {"id", "result"}

\* C5: the loop is Closed only by a step from Idle that reads no line and
\* writes nothing (end-of-stream or interrupt, exit status 0); a step that
\* handles a line leaves the loop in Idle whatever failed, unless the external
\* process never returns.
C5_ClosedOnlyFromIdle ==
    [][ /\ (pc' = "Closed" /\ pc # "Closed")
           => pc = "Idle" /\ exit_code' = 0 /\ UNCHANGED <<nread, nonblank, out, last>>
        /\ nonblank' = nonblank + 1
           => \/ pc' = "Idle"
              \/ pc' = "Hung" /\ fault = "hung" /\ last'.calls # <<>>
      ]_vars

\* A malformed line, then a request that failed on a missing or failing tmux
\* and was answered with an error, then end-of-stream.
C5_Witness ==
    /\ pc = "Closed" /\ exit_code = 0 /\ nonblank = 2 /\ Len(JsonLines) = 2
    /\ Malformed(hist[1])
    /\ last.calls # <<>> /\ last.calls[Len(last.calls)].rc \in {"exit", "absent"}
    /\ last.line.doc.method = Str("send_command_to_window")

\* C6: a ping request is answered with result "pong" and makes no external
\* call, whatever its arguments and whatever tmux would do.
C6_PingPong ==
    IsMethod("ping") =>
        /\ last.status = "responded"
        /\ last.resp = [id |-> ExpectedId(last.line.doc.id), result |-> Str("pong")]
        /\ last.calls = <<>>
        /\ last.prints = <<>>

\* A ping with arguments, answered while any external call would hang.
C6_Witness ==
    /\ IsMethod("ping") /\ last.line.doc.args.t = "list"
    /\ fault = "hung" /\ budget = 0
    /\ pc = "Idle" /\ Len(JsonLines) = 1

\* C7: every line written to stdout is a JSON Response.
C7_OnlyResponsesOnStdout ==
    \A i \in 1..Len(out) : out[i].kind = "json"

\* C8: handling send_keys_to_window or send_command_to_window reads nothing
\* from stdin and prints no confirmation prompt, whatever the confirm argument.
C8_NoConfirmationRead ==
    (IsMethod("send_keys_to_window") \/ IsMethod("send_command_to_window")) =>
        /\ last.reads = 0
        /\ "Confirm? (yes/no): " \notin Range(last.prints)
        /\ nread <= MaxLines

\* send_keys_to_window with confirm = true delivered the keys.
C8_Witness ==
    /\ IsMethod("send_keys_to_window")
    /\ Len(last.line.doc.args.items) = 4 /\ last.line.doc.args.items[4] = Bool(TRUE)
    /\ last.resp = [id |-> ExpectedId(last.line.doc.id), result |-> Bool(TRUE)]
    /\ Len(last.calls) = 2 /\ last.calls[2].cmd.name = "send-keys" /\ last.calls[2].rc = "ok"

\* C9: a send_keys_to_window request whose existence check (list-panes) exits
\* non-zero is answered with an error Response carrying the request's id, and
\* no send-keys command is issued.
C9_MissingTargetIsError ==
    (/\ IsMethod("send_keys_to_window")
     /\ last.calls # <<>>
     /\ last.calls[1].cmd.name = "list-panes" /\ last.calls[1].rc = "exit")
    => /\ DOMAIN last.resp = {"id", "error"}
       /\ last.resp.id = ExpectedId(last.line.doc.id)
       /\ \A i \in 1..Len(last.calls) : last.calls[i].cmd.name # "send-keys"

\* C10: a send_command_to_window whose text was delivered and whose submit
\* keystroke (C-m) then failed is answered with an error Response.
C10_PartialFailureIsError ==
    (/\ IsMethod("send_command_to_window")
     /\ Len(last.calls) = 3
     /\ last.calls[2].cmd.name = "send-keys" /\ last.calls[2].rc = "ok"
     /\ last.calls[2].cmd.arg = last.line.doc.args.items[3]
     /\ last.calls[3].cmd.name = "send-keys" /\ last.calls[3].cmd.arg = Str("C-m")
     /\ last.calls[3].rc \in {"exit", "absent"})
    => last.status = "responded" /\ DOMAIN last.resp = {"id", "error"}

\* Helpers on the latest request.
Args == last.line.doc.args.items
NArgs == IF IsRequest /\ last.line.doc.args.t = "list" THEN Len(Args) ELSE 0
Id == ExpectedId(last.line.doc.id)
\* The Response and loop status that the outcome r of an orchestrator call
\* leads to.
AnsweredAs(r) ==
    CASE r.exc = "none" -> last.status = "responded" /\ last.resp = [id |-> Id, result |-> r.val]
      [] r.exc = "Hang" -> last.status = "hung"
      [] OTHER -> last.status = "responded" /\ last.resp = [id |-> Id, error |-> r.val]
Failed(r) == r.exc # "none" \/ r.val = Bool(FALSE)
SubmitCalls == {i \in 1..Len(last.calls) : last.calls[i].cmd.arg = Str("C-m")}
\* A send_command_to_window request that reaches send_command_to_window.
IsPlainSendCommand ==
    /\ IsMethod("send_command_to_window") /\ NArgs >= 3
    /\ Args[3].t = "str" /\ ~StartsWithStatusRequest(Args[3])

\* C11: when the text step of send_command_to_window (its own check of the
\* command, or send_keys_to_window on the same arguments from the same start)
\* fails by returning False or by raising, no C-m keystroke is issued, the
\* external calls are those of the text step alone, and the request is
\* answered with the text step's outcome.
C11_FirstFailureStops ==
    IsPlainSendCommand =>
        \A k \in {send_keys_to_window(NoEffects(last.budget), Args[1], Args[2], Args[3],
                                      ArgOr(last.line.doc.args, 4, Bool(FALSE)), "none")} :
            Failed(k) =>
                /\ SubmitCalls = {}
                /\ last.calls = (IF Falsy(Args[3]) THEN <<>> ELSE k.e.calls)
                /\ AnsweredAs(k)

\* The target existed, the send-keys of the text exited non-zero, and the
\* request was answered with false after two external calls.
C11_Witness ==
    /\ IsPlainSendCommand
    /\ Len(last.calls) = 2
    /\ last.calls[1].cmd.name = "list-panes" /\ last.calls[1].rc = "ok"
    /\ last.calls[2].cmd.arg = Args[3] /\ last.calls[2].rc = "exit"
    /\ last.resp = [id |-> Id, result |-> Bool(FALSE)]

\* C12: a capture_window_content request whose third argument is an integer
\* <= 0 is answered with an error Response, after no external call, whatever
\* the session name and window index.
C12_NonPositiveIsError ==
    (/\ IsMethod("capture_window_content") /\ NArgs >= 3
     /\ Args[3].t = "int" /\ Args[3].n <= 0)
    => /\ last.calls = <<>>
       /\ last.status = "responded"
       /\ DOMAIN last.resp = {"id", "error"}

\* C13: a get_tmux_sessions request whose list-sessions command exits
\* non-zero, or finds no tmux, is answered with an error Response (a result
\* is given only when the listing succeeded).
C13_ListFailureIsError ==
    (/\ IsMethod("get_tmux_sessions")
     /\ last.calls # <<>>
     /\ last.calls[1].cmd.name = "list-sessions"
     /\ last.calls[1].rc \in {"exit", "absent"})
    => /\ last.status = "responded"
       /\ DOMAIN last.resp = {"id", "error"}

\* The list-sessions call and the list-windows call of every session ended
\* normally.
ListingOk ==
    /\ Len(last.calls) >= 1 + Len(world)
    /\ \A i \in 1..(1 + Len(world)) : last.calls[i].rc = "ok"
DescribeFailed ==
    \E i \in 1..Len(last.calls) :
        /\ last.calls[i].cmd.name = "display-message"
        /\ last.calls[i].rc \in {"exit"} \cup Garbled

\* C14: a get_all_windows_status request whose listing succeeded and in which
\* a display-message command exited non-zero or printed empty, short or
\* ill-typed output is still answered with a result holding one entry for
\* every window of every session.
C14_SnapshotNeverAborts ==
    (IsMethod("get_all_windows_status") /\ ListingOk /\ DescribeFailed)
    => /\ last.status = "responded"
       /\ "result" \in DOMAIN last.resp
       /\ Len(last.resp.result.d.sessions) = Len(world)
       /\ \A i \in 1..Len(world) :
             Len(last.resp.result.d.sessions[i].windows) = Len(world[i].windows)

\* The methods handle_request knows and the least number of arguments each
\* of them asks for.
Required(m) ==
    CASE m \in {"capture_window_content", "get_window_info"} -> 2
      [] m \in {"send_keys_to_window", "send_command_to_window"} -> 3
      [] m = "find_window_by_name" -> 1
      [] OTHER -> 0
KnownMethods ==
    {"ping", "get_tmux_sessions", "capture_window_content", "get_window_info",
     "send_keys_to_window", "send_command_to_window", "get_all_windows_status",
     "find_window_by_name", "create_monitoring_snapshot"}
MissingTexts ==
    {"Missing arguments for capture_window_content", "Missing arguments for get_window_info",
     "Missing arguments for send_keys_to_window", "Missing arguments for send_command_to_window",
     "Missing window name argument"}
MethodName == IF last.line.doc.method.t = "str" THEN last.line.doc.method.s ELSE ""

\* C15: a request for a known method with fewer arguments than the method
\* asks for (args missing, null or a too short list) is answered with an
\* error Response after no external call; with a list or no args at all the
\* error is the method's missing-arguments message.
C15_ArityBeforeCalls ==
    (IsRequest /\ NArgs < Required(MethodName))
    => /\ last.calls = <<>>
       /\ last.status = "responded"
       /\ DOMAIN last.resp = {"id", "error"}
       /\ last.resp.id = Id
       /\ last.line.doc.args.t \in {"list", "absent"} => last.resp.error.text \in MissingTexts

\* send_keys_to_window with two arguments, while tmux is missing.
C15_Witness ==
    /\ IsMethod("send_keys_to_window") /\ NArgs = 2
    /\ fault = "absent" /\ last.budget = 0
    /\ last.resp.error.text = "Missing arguments for send_keys_to_window"
    /\ last.calls = <<>>

\* C16: a request whose method is missing, no string, or none of the known
\* names is answered with the error 'Unknown method: <method>', which is none
\* of the missing-arguments messages, after no external call, whatever its
\* arguments.
C16_UnknownMethod ==
    (IsRequest /\ MethodName \notin KnownMethods)
    => /\ last.calls = <<>>
       /\ last.status = "responded"
       /\ last.resp = [id |-> Id,
                       error |-> Msg("Unknown method: ", Get(last.line.doc, "method"))]
       /\ last.resp.error.text \notin MissingTexts

\* A request without a method and one with an unknown name and three
\* arguments are reached; the witness is the second.
C16_Witness ==
    /\ IsMethod("bogus") /\ NArgs = 3
    /\ last.resp.error = Msg("Unknown method: ", Str("bogus"))
    /\ last.resp.id = Id

\* C17: a capture_window_content request for more than max_lines_capture
\* lines issues the external commands, and is answered with the value, of the
\* same request for exactly max_lines_capture lines from the same start;
\* clamping the clamped number gives the same number.
C17_ClampedCapture ==
    (/\ IsMethod("capture_window_content") /\ NArgs >= 3
     /\ Args[3].t = "int" /\ Args[3].n > max_lines_capture)
    => /\ \A c \in {capture_window_content(NoEffects(last.budget), Args[1], Args[2],
                                            JInt(max_lines_capture))} :
             last.calls = c.e.calls /\ AnsweredAs(c)
       /\ clamp_lines(Args[3]) = max_lines_capture
       /\ clamp_lines(JInt(clamp_lines(Args[3]))) = clamp_lines(Args[3])

\* 2000 lines asked of an existing window: the capture-pane command asked
\* for max_lines_capture lines and its output was the result.
C17_Witness ==
    /\ IsMethod("capture_window_content") /\ NArgs = 3 /\ Args[3] = JInt(2000)
    /\ Len(last.calls) = 2
    /\ last.calls[2].cmd.name = "capture-pane" /\ last.calls[2].rc = "ok"
    /\ last.calls[2].cmd.arg = max_lines_capture
    /\ "result" \in DOMAIN last.resp

\* Every window of the tmux server, session after session, each session's
\* windows in their listing order.
RECURSIVE AllWindows(_)
AllWindows(ss) ==
    IF ss = <<>> THEN <<>>
    ELSE [j \in 1..Len(Head(ss).windows) |->
             [session |-> Head(ss).name, window |-> Head(ss).windows[j]]]
         \o AllWindows(Tail(ss))
\* Letters that differ only in case are the same letter.
Fold(c) == IF c = "q" THEN "Q" ELSE IF c = "a" THEN "A" ELSE c
ContainsIgnoringCase(b, a) ==
    \E k \in 0..(Len(b) - Len(a)) : \A i \in 1..Len(a) : Fold(b[k + i]) = Fold(a[i])
ExpectedMatches(s) ==
    LET Matches(x) == ContainsIgnoringCase(Chars(x.window.window_name), Chars(s))
        found == SelectSeq(AllWindows(world), Matches)
    IN  [i \in 1..Len(found) |->
            List(<<Str(found[i].session), JInt(found[i].window.window_index)>>)]
\* The request made exactly the listing calls and all of them ended normally.
ListedAll ==
    /\ Len(last.calls) = 1 + Len(world)
    /\ \A i \in 1..Len(last.calls) : last.calls[i].rc = "ok"

\* C18: a find_window_by_name request for a string s, the sessions and
\* windows having been listed, is answered with the (session name, window
\* index) pairs of exactly the windows whose name contains s regardless of
\* case, in session-then-window listing order; for "" these are all windows.
C18_FindByName ==
    (IsMethod("find_window_by_name") /\ NArgs >= 1 /\ Args[1].t = "str" /\ ListedAll)
    => /\ last.resp = [id |-> Id, result |-> List(ExpectedMatches(Args[1].s))]
       /\ Args[1].s = "" => Len(last.resp.result.items) = Len(AllWindows(world))

\* "QA" found qa-engineer in session main and QA-logs in session work.
C18_Witness ==
    /\ IsMethod("find_window_by_name") /\ NArgs = 1 /\ Args = <<Str("QA")>>
    /\ "result" \in DOMAIN last.resp
    /\ last.resp.result = List(<< List(<<Str("main"), JInt(1)>>),
                                  List(<<Str("work"), JInt(0)>>) >>)

\* What the claim counts as an operation that did not succeed: an error
\* response, a result of false, or an external command that exited non-zero
\* or could not be started.
OperationFailed ==
    \/ "error" \in DOMAIN last.resp
    \/ last.resp.result = Bool(FALSE)
    \/ \E i \in 1..Len(last.calls) : last.calls[i].rc \in {"exit", "absent"}

\* C19: a single-shot run that handled a method prints one JSON line and ends
\* with status 0 exactly when the operation succeeded, status 1 otherwise.
C19_LegacyExitStatus ==
    (pc = "Closed" /\ last.status = "responded")
    => /\ Len(JsonLines) = 1
       /\ exit_code = (IF OperationFailed THEN 1 ELSE 0)

\* The keys of the send-keys commands the latest request issued, in order.
IsSendKeys(c) == c.cmd.name = "send-keys"
KeysSent ==
    LET sent == SelectSeq(last.calls, IsSendKeys)
    IN  [i \in 1..Len(sent) |-> sent[i].cmd.arg]
IsPrefix(p, q) == Len(p) <= Len(q) /\ \A i \in 1..Len(p) : p[i] = q[i]

\* C20: the send-keys commands of a send_command_to_window request with at
\* least three arguments are the request's command text, then C-m on its
\* own, and nothing else: a prefix of that sequence whatever fails, the whole
\* sequence when the request is answered with true.
C20_LiteralThenSubmit ==
    (IsMethod("send_command_to_window") /\ NArgs >= 3)
    => /\ IsPrefix(KeysSent, <<Args[3], Str("C-m")>>)
       /\ (last.status = "responded" /\ last.resp = [id |-> Id, result |-> Bool(TRUE)])
             => KeysSent = <<Args[3], Str("C-m")>>

\* The arguments send_keys_to_window turns down before asking tmux: an empty
\* session name, a window index that is no integer or is negative, no keys.
TurnedDown ==
    \/ Args[1] \in {Str(""), Null}
    \/ Args[2].t \notin {"int", "bool"}
    \/ Args[2].t = "int" /\ Args[2].n < 0
    \/ Args[3] \in {Str(""), Null}

\* C21: a send_keys_to_window request with at least three arguments makes no
\* external call when its arguments are turned down; otherwise its first
\* call is the list-panes existence check, and a send-keys command is only
\* ever the second call, after a list-panes that exited with status 0.
C21_CheckBeforeSend ==
    (IsMethod("send_keys_to_window") /\ NArgs >= 3)
    => /\ TurnedDown => last.calls = <<>> /\ last.resp = [id |-> Id, result |-> Bool(FALSE)]
       /\ ~TurnedDown => /\ Len(last.calls) \in {1, 2}
                         /\ last.calls[1].cmd.name = "list-panes"
                         /\ last.calls[1].cmd.target = Target(Args[1], Args[2])
       /\ \A i \in 1..Len(last.calls) :
             last.calls[i].cmd.name = "send-keys"
                => /\ i = 2
                   /\ last.calls[1].cmd.name = "list-panes"
                   /\ last.calls[1].rc \in {"ok"} \cup Garbled
                   /\ last.calls[i].cmd.target = last.calls[1].cmd.target
                   /\ last.calls[i].cmd.arg = Args[3]

\* Keys for a window that exists: list-panes, then send-keys with the keys,
\* which tmux could not run any more.
C21_Witness ==
    /\ IsMethod("send_keys_to_window") /\ NArgs = 3 /\ ~TurnedDown
    /\ Len(last.calls) = 2
    /\ last.calls[1].cmd.name = "list-panes" /\ last.calls[1].rc = "ok"
    /\ last.calls[2].cmd.name = "send-keys" /\ last.calls[2].rc = "absent"
    /\ "error" \in DOMAIN last.resp

\* C22: whenever the loop waits for a line, sys.stdout's buffer is empty and
\* the Response to every non-blank line read so far has left the process,
\* whether it was printed after handle_request or in one of the two except
\* clauses.
C22_FlushedBeforeNextRead ==
    pc = "Idle" =>
        /\ stdout_buffer = <<>>
        /\ Len(JsonLines) = nonblank
        /\ nonblank > 0 => out[Len(out)] = JsonLine(nonblank, last.resp)

\* Three lines were answered, one by each place that prints a Response, and
\* the loop waits again.
C22_Witness ==
    /\ pc = "Idle" /\ nonblank = 3 /\ stdout_buffer = <<>>
    /\ hist[1].kind = "garbage" /\ hist[2].kind = "other" /\ hist[3].kind = "object"
    /\ Len(JsonLines) = 3

====
